---- MODULE Spec2Model ----
(***************************************************************************)
(* Model of the trip resolution pipeline of fare_service.py: address       *)
(* normalization, coordinate-literal parsing, the geocoding and routing    *)
(* fallback chains, polyline decoding and the fare formula.                *)
(*                                                                         *)
(* A Python string is a sequence of one-character strings.  Optional       *)
(* values are None == <<>> or Some(x) == <<x>>.  A float number of degrees *)
(* is an integer number of 1e-5 degrees (E5 units).                        *)
(***************************************************************************)
EXTENDS Integers, Sequences, FiniteSets, TLC

None == <<>>
Some(x) == <<x>>

(***************************************************************************)
(* Characters and the str / re primitives the source uses.                 *)
(***************************************************************************)
Digits == {"0", "1", "2", "3", "4", "5", "6", "7", "8", "9"}
LowerAlpha == <<"a", "b", "c", "d", "e", "f", "g", "h", "i", "j", "k", "l", "m",
                "n", "o", "p", "q", "r", "s", "t", "u", "v", "w", "x", "y", "z">>
UpperAlpha == <<"A", "B", "C", "D", "E", "F", "G", "H", "I", "J", "K", "L", "M",
                "N", "O", "P", "Q", "R", "S", "T", "U", "V", "W", "X", "Y", "Z">>
Whitespace == {" ", "\t", "\n"}

IsSpace(c) == c \in Whitespace
IsDigit(c) == c \in Digits
IsUpper(c) == \E i \in DOMAIN UpperAlpha : UpperAlpha[i] = c
IsLower(c) == \E i \in DOMAIN LowerAlpha : LowerAlpha[i] = c
\* \w of the re module
IsWord(c) == IsDigit(c) \/ IsUpper(c) \/ IsLower(c) \/ c = "_"

lower_char(c) ==
    IF IsUpper(c)
    THEN LowerAlpha[CHOOSE i \in DOMAIN UpperAlpha : UpperAlpha[i] = c]
    ELSE c
\* str.lower
lower(s) == [i \in 1..Len(s) |-> lower_char(s[i])]

Drop(s, n) == SubSeq(s, n + 1, Len(s))
startswith(s, p) == Len(s) >= Len(p) /\ SubSeq(s, 1, Len(p)) = p

RECURSIVE lstrip(_)
lstrip(s) == IF s # <<>> /\ IsSpace(Head(s)) THEN lstrip(Tail(s)) ELSE s
RECURSIVE rstrip(_)
rstrip(s) ==
    IF s # <<>> /\ IsSpace(s[Len(s)]) THEN rstrip(SubSeq(s, 1, Len(s) - 1)) ELSE s
\* str.strip
strip(s) == rstrip(lstrip(s))

\* str.count of a single character
count(s, c) == Cardinality({i \in 1..Len(s) : s[i] = c})

\* str.split(c) for a one-character separator: n separators give n+1 pieces
RECURSIVE split(_, _)
split(s, c) ==
    IF \E i \in 1..Len(s) : s[i] = c
    THEN LET i == CHOOSE k \in 1..Len(s) :
                      s[k] = c /\ \A j \in 1..(k - 1) : s[j] # c
         IN  <<SubSeq(s, 1, i - 1)>> \o split(Drop(s, i), c)
    ELSE <<s>>

\* str.splitlines: a final line break opens no further line
splitlines(s) ==
    LET pieces == split(s, "\n")
    IN  IF pieces[Len(pieces)] = <<>>
        THEN SubSeq(pieces, 1, Len(pieces) - 1)
        ELSE pieces

\* sep.join(parts)
RECURSIVE join(_, _)
join(parts, sep) ==
    IF parts = <<>> THEN <<>>
    ELSE IF Len(parts) = 1 THEN parts[1]
    ELSE parts[1] \o sep \o join(Tail(parts), sep)

\* str.split() with no separator: the maximal runs of non-whitespace
RECURSIVE split_ws(_)
split_ws(s) ==
    LET t == lstrip(s)
    IN  IF t = <<>> THEN <<>>
        ELSE LET n == CHOOSE k \in 1..Len(t) :
                          /\ \A j \in 1..k : ~IsSpace(t[j])
                          /\ (k = Len(t) \/ IsSpace(t[k + 1]))
             IN  <<SubSeq(t, 1, n)>> \o split_ws(Drop(t, n))

\* sub occurs in s at index i
occurs_at(s, sub, i) ==
    i >= 1 /\ i + Len(sub) - 1 <= Len(s) /\ SubSeq(s, i, i + Len(sub) - 1) = sub
\* the "in" operator on strings
contains(s, sub) == \E i \in 1..(Len(s) + 1) : occurs_at(s, sub, i)

\* str.replace(old, new): every non-overlapping occurrence, left to right
RECURSIVE replace(_, _, _)
replace(s, old, new) ==
    IF s = <<>> THEN <<>>
    ELSE IF occurs_at(s, old, 1) THEN new \o replace(Drop(s, Len(old)), old, new)
    ELSE <<Head(s)>> \o replace(Tail(s), old, new)

\* [x for x in xs if x]
RECURSIVE drop_empty(_)
drop_empty(xs) ==
    IF xs = <<>> THEN <<>>
    ELSE IF Head(xs) = <<>> THEN drop_empty(Tail(xs))
    ELSE <<Head(xs)>> \o drop_empty(Tail(xs))

\* \b of the re module between s[i-1] and s[i]
word_boundary(s, i) ==
    LET before == i > 1 /\ i - 1 <= Len(s) /\ IsWord(s[i - 1])
        after == i >= 1 /\ i <= Len(s) /\ IsWord(s[i])
    IN  before # after

\* re.sub(r"\bWORD\b", rep, s, flags=re.IGNORECASE) for a literal WORD
RECURSIVE sub_word_from(_, _, _, _)
sub_word_from(s, word, rep, i) ==
    IF i > Len(s) THEN <<>>
    ELSE IF /\ i + Len(word) - 1 <= Len(s)
            /\ lower(SubSeq(s, i, i + Len(word) - 1)) = lower(word)
            /\ word_boundary(s, i)
            /\ word_boundary(s, i + Len(word))
    THEN rep \o sub_word_from(s, word, rep, i + Len(word))
    ELSE <<s[i]>> \o sub_word_from(s, word, rep, i + 1)
sub_word(s, word, rep) == sub_word_from(s, word, rep, 1)

\* re.search(r"\bWORD\b", s, flags=re.IGNORECASE) for a literal WORD
search_word(s, word) ==
    \E i \in 1..Len(s) :
        /\ i + Len(word) - 1 <= Len(s)
        /\ lower(SubSeq(s, i, i + Len(word) - 1)) = lower(word)
        /\ word_boundary(s, i)
        /\ word_boundary(s, i + Len(word))

(***************************************************************************)
(* AddressNormalizer: _strip_whatsapp_metadata and normalize_address.      *)
(***************************************************************************)
\* re.sub(r"^\s*\[[^\]]+\]\s*", "", t): a leading [timestamp, date] block
sub_timestamp_block(t) ==
    LET u == lstrip(t)
    IN  IF u # <<>> /\ u[1] = "[" /\ \E i \in 2..Len(u) : u[i] = "]"
        THEN LET i == CHOOSE k \in 2..Len(u) :
                          u[k] = "]" /\ \A j \in 2..(k - 1) : u[j] # "]"
             IN  IF i > 2 THEN lstrip(Drop(u, i)) ELSE t
        ELSE t

PhoneChars == Digits \cup Whitespace \cup {"(", ")", "-"}

\* re.sub(r"^\s*[+\d][\d\s()\-]*:\s*", "", t): a leading phone number and colon
sub_phone_prefix(t) ==
    LET u == lstrip(t)
    IN  IF u # <<>> /\ (u[1] = "+" \/ IsDigit(u[1]))
        THEN LET n == CHOOSE k \in 1..Len(u) :
                          /\ \A j \in 2..k : u[j] \in PhoneChars
                          /\ (k = Len(u) \/ u[k + 1] \notin PhoneChars)
             IN  IF n < Len(u) /\ u[n + 1] = ":" THEN lstrip(Drop(u, n + 1)) ELSE t
        ELSE t

\* re.sub(r"^(from|to)\s*:?,?\s*", "", t, flags=re.IGNORECASE)
sub_from_to(t) ==
    LET l == lower(t)
        from == <<"f", "r", "o", "m">>
        to == <<"t", "o">>
        n == IF startswith(l, from) THEN Len(from)
             ELSE IF startswith(l, to) THEN Len(to) ELSE 0
        r1 == lstrip(Drop(t, n))
        r2 == IF r1 # <<>> /\ r1[1] = ":" THEN Tail(r1) ELSE r1
        r3 == IF r2 # <<>> /\ r2[1] = "," THEN Tail(r2) ELSE r2
    IN  IF n = 0 THEN t ELSE lstrip(r3)

strip_whatsapp_metadata(s) ==
    IF s = <<>> THEN s
    ELSE sub_from_to(sub_phone_prefix(sub_timestamp_block(strip(s))))

\* re.sub(r"\b\d{5}\b", "", p): standalone 5-digit postal codes
PostalDigits == 5
RECURSIVE sub_postal_from(_, _)
sub_postal_from(p, i) ==
    IF i > Len(p) THEN <<>>
    ELSE IF /\ i + PostalDigits - 1 <= Len(p)
            /\ \A j \in i..(i + PostalDigits - 1) : IsDigit(p[j])
            /\ word_boundary(p, i)
            /\ word_boundary(p, i + PostalDigits)
    THEN sub_postal_from(p, i + PostalDigits)
    ELSE <<p[i]>> \o sub_postal_from(p, i + 1)
sub_postal(p) == sub_postal_from(p, 1)

\* the replacements dict of expand_abbrev, in insertion order
Abbreviations ==
    << <<<<"J", "l", "n">>, <<"J", "a", "l", "a", "n">>>>,
       <<<<"J", "l">>, <<"J", "a", "l", "a", "n">>>>,
       <<<<"L", "b", "h">>, <<"L", "e", "b", "u", "h">>>>,
       <<<<"L", "o", "r">>, <<"L", "o", "r", "o", "n", "g">>>>,
       <<<<"K", "g">>, <<"K", "a", "m", "p", "u", "n", "g">>>>,
       <<<<"T", "m", "n">>, <<"T", "a", "m", "a", "n">>>>,
       <<<<"B", "t">>, <<"B", "a", "t", "u">>>> >>

\* the alias_map dict of expand_abbrev, in insertion order
AliasMap ==
    << <<<<"i", "o", "i", " ", "r", "e", "s", "o", "r", "t">>,
         <<"I", "O", "I", " ", "R", "e", "s", "o", "r", "t", " ", "C", "i", "t", "y">>>>,
       <<<<"p", "u", "t", "r", "a", "j", "y", "a">>,
         <<"P", "u", "t", "r", "a", "j", "a", "y", "a">>>> >>

RECURSIVE apply_replacements(_, _)
apply_replacements(p, table) ==
    IF table = <<>> THEN p
    ELSE apply_replacements(sub_word(p, table[1][1], table[1][2]), Tail(table))

\* the alias loop: the first key found in p.lower() is substituted in the
\* lower-cased text, and the loop breaks
RECURSIVE apply_alias(_, _)
apply_alias(p, table) ==
    IF table = <<>> THEN p
    ELSE IF contains(lower(p), table[1][1])
    THEN replace(lower(p), table[1][1], table[1][2])
    ELSE apply_alias(p, Tail(table))

expand_abbrev(part) ==
    strip(apply_alias(apply_replacements(sub_postal(part), Abbreviations), AliasMap))

\* max(lines, key=lambda x: (x.count(','), len(x))): the first maximal line
line_key_less(x, y) ==
    \/ count(x, ",") < count(y, ",")
    \/ count(x, ",") = count(y, ",") /\ Len(x) < Len(y)
max_line(lines) ==
    lines[CHOOSE i \in DOMAIN lines :
              /\ \A j \in DOMAIN lines : ~line_key_less(lines[i], lines[j])
              /\ \A j \in 1..(i - 1) : line_key_less(lines[j], lines[i])]

\* while ",," in a: a = a.replace(",,", ",")
RECURSIVE collapse_commas(_)
collapse_commas(a) ==
    IF contains(a, <<",", ",">>)
    THEN collapse_commas(replace(a, <<",", ",">>, <<",">>))
    ELSE a

CountryName == <<"M", "a", "l", "a", "y", "s", "i", "a">>

normalize_address(address) ==
    IF address = <<>> THEN <<>>
    ELSE
    LET raw_lines == splitlines(address)
        lines == drop_empty([i \in DOMAIN raw_lines |-> strip(raw_lines[i])])
        cleaned == [i \in DOMAIN lines |-> strip_whatsapp_metadata(lines[i])]
        candidate == IF lines # <<>> THEN max_line(cleaned) ELSE address
        a1 == collapse_commas(replace(candidate, <<"\n">>, <<" ">>))
        pieces == split(a1, ",")
        parts == drop_empty([i \in DOMAIN pieces |-> strip(pieces[i])])
        expanded == [i \in DOMAIN parts |-> expand_abbrev(parts[i])]
        a2 == join(drop_empty(expanded), <<",", " ">>)
        a3 == join(split_ws(a2), <<" ">>)
    IN  IF ~search_word(a3, CountryName)
        THEN a3 \o <<",", " ">> \o CountryName
        ELSE a3

(***************************************************************************)
(* _simplify_address_for_retry                                             *)
(***************************************************************************)
\* parts[-n:]
last_n(parts, n) ==
    IF Len(parts) <= n THEN parts ELSE SubSeq(parts, Len(parts) - n + 1, Len(parts))

KeepSegments == 3

\* mutant of simplify_address_for_retry: the test that the simplified string
\* differs from the address is left out
simplify_address_for_retry_unchecked(address) ==
    IF address = <<>> THEN None
    ELSE
    LET pieces == split(address, ",")
        parts == drop_empty([i \in DOMAIN pieces |-> strip(pieces[i])])
        keep == IF Len(parts) >= KeepSegments
                THEN last_n(parts, KeepSegments)
                ELSE last_n(parts, KeepSegments - 1)
        simplified == join(keep, <<",", " ">>)
    IN  IF Len(parts) <= 1 THEN None
        ELSE IF simplified # <<>> THEN Some(simplified)
        ELSE None

simplify_address_for_retry(address) ==
    IF address = <<>> THEN None
    ELSE
    LET pieces == split(address, ",")
        parts == drop_empty([i \in DOMAIN pieces |-> strip(pieces[i])])
        keep == IF Len(parts) >= KeepSegments
                THEN last_n(parts, KeepSegments)
                ELSE last_n(parts, KeepSegments - 1)
        simplified == join(keep, <<",", " ">>)
    IN  IF Len(parts) <= 1 THEN None
        ELSE IF simplified # <<>> /\ simplified # address THEN Some(simplified)
        ELSE None

(***************************************************************************)
(* CoordinateLiteralParser: robust_geocode._try_parse_coords.              *)
(***************************************************************************)
E5 == 100000

DigitChars == <<"0", "1", "2", "3", "4", "5", "6", "7", "8", "9">>
digit_value(c) == (CHOOSE i \in DOMAIN DigitChars : DigitChars[i] = c) - 1

\* the length of the run of digits of s that starts at index i
RECURSIVE digits_run(_, _)
digits_run(s, i) ==
    IF i <= Len(s) /\ IsDigit(s[i]) THEN 1 + digits_run(s, i + 1) ELSE 0

\* the length of the match of [+-]?(?:\d+(?:\.\d+)?) at index i, 0 for no match
num_match_len(s, i) ==
    LET sign == IF s[i] \in {"+", "-"} THEN 1 ELSE 0
        n == digits_run(s, i + sign)
        dot == i + sign + n
        frac == IF dot <= Len(s) /\ s[dot] = "." THEN digits_run(s, dot + 1) ELSE 0
    IN  IF n = 0 THEN 0
        ELSE sign + n + (IF frac > 0 THEN 1 + frac ELSE 0)

\* re.findall(r"[+-]?(?:\d+(?:\.\d+)?)", s)
RECURSIVE findall_from(_, _)
findall_from(s, i) ==
    IF i > Len(s) THEN <<>>
    ELSE LET m == num_match_len(s, i)
         IN  IF m > 0
             THEN <<SubSeq(s, i, i + m - 1)>> \o findall_from(s, i + m)
             ELSE findall_from(s, i + 1)
findall_numbers(s) == findall_from(s, 1)

\* the value of a string of digits
RECURSIVE int_of(_)
int_of(ds) ==
    IF ds = <<>> THEN 0
    ELSE int_of(SubSeq(ds, 1, Len(ds) - 1)) * 10 + digit_value(ds[Len(ds)])

\* the value in E5 units of the digits after the decimal point; unit is the
\* weight of the first digit.  Digits below 1e-5 are beyond the resolution.
RECURSIVE frac_of(_, _)
frac_of(ds, unit) ==
    IF ds = <<>> \/ unit = 0 THEN 0
    ELSE digit_value(Head(ds)) * unit + frac_of(Tail(ds), unit \div 10)

\* float(tok) for a token matched by findall_numbers, in E5 units
to_float(tok) ==
    LET signed == tok[1] \in {"+", "-"}
        body == IF signed THEN Tail(tok) ELSE tok
        n == digits_run(body, 1)
        magnitude == int_of(SubSeq(body, 1, n)) * E5
                     + frac_of(Drop(body, n + 1), E5 \div 10)
    IN  IF tok[1] = "-" THEN 0 - magnitude ELSE magnitude

MaxLat == 90
MaxLon == 180

\* mutant of try_parse_coords: the range tests exclude the end points
try_parse_coords_open_ranges(s) ==
    IF s = <<>> THEN None
    ELSE
    LET nums == findall_numbers(s)
        a == to_float(nums[1])
        b == to_float(nums[2])
    IN  IF Len(nums) < 2 THEN None
        ELSE IF /\ 0 - MaxLat * E5 < a /\ a < MaxLat * E5
                /\ 0 - MaxLon * E5 < b /\ b < MaxLon * E5
        THEN Some(<<b, a>>)
        ELSE Some(<<a, b>>)

\* a coordinate is <<lon, lat>>
try_parse_coords(s) ==
    IF s = <<>> THEN None
    ELSE
    LET nums == findall_numbers(s)
        a == to_float(nums[1])
        b == to_float(nums[2])
    IN  IF Len(nums) < 2 THEN None
        ELSE IF /\ 0 - MaxLat * E5 <= a /\ a <= MaxLat * E5
                /\ 0 - MaxLon * E5 <= b /\ b <= MaxLon * E5
        THEN Some(<<b, a>>)
        ELSE Some(<<a, b>>)

(***************************************************************************)
(* haversine_meters.  The floating-point trigonometry is not computable    *)
(* here: the table holds the value the source function returns for every   *)
(* pair of the coordinates that occur in the model, in metres rounded up,  *)
(* so that d <= 20.0 in the source is d <= 20 on the table.                *)
(***************************************************************************)
HaversineTable ==
    { 
      <<<<10168690, 313900>>, <<10168690, 313900>>, 0>>,
      <<<<10168690, 313900>>, <<10168690, 313910>>, 12>>,
      <<<<10168690, 313900>>, <<10168690, 313920>>, 23>>,
      <<<<10168690, 313900>>, <<10100000, 300000>>, 77821>>,
      <<<<10168690, 313900>>, <<20000000, 30000000>>, 10771376>>,
      <<<<10168690, 313900>>, <<10171230, 315000>>, 3074>>,
      <<<<10168690, 313910>>, <<10168690, 313900>>, 12>>,
      <<<<10168690, 313910>>, <<10168690, 313910>>, 0>>,
      <<<<10168690, 313910>>, <<10168690, 313920>>, 12>>,
      <<<<10168690, 313910>>, <<10100000, 300000>>, 77823>>,
      <<<<10168690, 313910>>, <<20000000, 30000000>>, 10771386>>,
      <<<<10168690, 313910>>, <<10171230, 315000>>, 3070>>,
      <<<<10168690, 313920>>, <<10168690, 313900>>, 23>>,
      <<<<10168690, 313920>>, <<10168690, 313910>>, 12>>,
      <<<<10168690, 313920>>, <<10168690, 313920>>, 0>>,
      <<<<10168690, 313920>>, <<10100000, 300000>>, 77825>>,
      <<<<10168690, 313920>>, <<20000000, 30000000>>, 10771395>>,
      <<<<10168690, 313920>>, <<10171230, 315000>>, 3066>>,
      <<<<10100000, 300000>>, <<10168690, 313900>>, 77821>>,
      <<<<10100000, 300000>>, <<10168690, 313910>>, 77823>>,
      <<<<10100000, 300000>>, <<10168690, 313920>>, 77825>>,
      <<<<10100000, 300000>>, <<10100000, 300000>>, 0>>,
      <<<<10100000, 300000>>, <<20000000, 30000000>>, 10795955>>,
      <<<<10100000, 300000>>, <<10171230, 315000>>, 80830>>,
      <<<<20000000, 30000000>>, <<10168690, 313900>>, 10771376>>,
      <<<<20000000, 30000000>>, <<10168690, 313910>>, 10771386>>,
      <<<<20000000, 30000000>>, <<10168690, 313920>>, 10771395>>,
      <<<<20000000, 30000000>>, <<10100000, 300000>>, 10795955>>,
      <<<<20000000, 30000000>>, <<20000000, 30000000>>, 0>>,
      <<<<20000000, 30000000>>, <<10171230, 315000>>, 10771031>>,
      <<<<10171230, 315000>>, <<10168690, 313900>>, 3074>>,
      <<<<10171230, 315000>>, <<10168690, 313910>>, 3070>>,
      <<<<10171230, 315000>>, <<10168690, 313920>>, 3066>>,
      <<<<10171230, 315000>>, <<10100000, 300000>>, 80830>>,
      <<<<10171230, 315000>>, <<20000000, 30000000>>, 10771031>>,
      <<<<10171230, 315000>>, <<10171230, 315000>>, 0>> }

haversine_meters(a, b) ==
    (CHOOSE e \in HaversineTable : e[1] = a /\ e[2] = b)[3]

(***************************************************************************)
(* Mode mapping: _ors_profile, _osrm_profile, _google_mode.                *)
(***************************************************************************)
Car == <<"c", "a", "r">>
Bike == <<"b", "i", "k", "e">>
Bicycle == <<"b", "i", "c", "y", "c", "l", "e">>
Cycling == <<"c", "y", "c", "l", "i", "n", "g">>
Cycle == <<"c", "y", "c", "l", "e">>
Foot == <<"f", "o", "o", "t">>
Walk == <<"w", "a", "l", "k">>
Walking == <<"w", "a", "l", "k", "i", "n", "g">>
Pedestrian == <<"p", "e", "d", "e", "s", "t", "r", "i", "a", "n">>

\* (mode or "car").lower()
mode_key(mode) == lower(IF mode = <<>> THEN Car ELSE mode)

ors_profile(mode) ==
    IF mode_key(mode) \in {Bike, Bicycle, Cycling} THEN "cycling-regular"
    ELSE IF mode_key(mode) \in {Foot, Walk, Walking, Pedestrian} THEN "foot-walking"
    ELSE "driving-car"

osrm_profile(mode) ==
    IF mode_key(mode) \in {Bike, Bicycle, Cycling, Cycle} THEN "cycling"
    ELSE IF mode_key(mode) \in {Foot, Walk, Walking, Pedestrian} THEN "walking"
    ELSE "driving"

google_mode(mode) ==
    IF mode_key(mode) \in {Bike, Bicycle, Cycling, Cycle} THEN "bicycling"
    ELSE IF mode_key(mode) \in {Foot, Walk, Walking, Pedestrian} THEN "walking"
    ELSE "driving"

(***************************************************************************)
(* PolylineDecoder: _polyline_decode.  A call returns [ok, val, exc]: ok   *)
(* with the value, or not ok with the name of the exception raised.        *)
(***************************************************************************)
Return(v) == [ok |-> TRUE, val |-> v, exc |-> ""]
Raise(e) == [ok |-> FALSE, val |-> <<>>, exc |-> e]

\* the printable ASCII characters, from chr(32); "grave" stands for chr(96),
\* which cannot be written in a string here
Ascii ==
    <<
       " ", "!", "\"", "#", "$", "%", "&", "'", "(", ")", "*", "+", ",", "-", ".", "/",
       "0", "1", "2", "3", "4", "5", "6", "7", "8", "9", ":", ";", "<", "=", ">", "?",
       "@", "A", "B", "C", "D", "E", "F", "G", "H", "I", "J", "K", "L", "M", "N", "O",
       "P", "Q", "R", "S", "T", "U", "V", "W", "X", "Y", "Z", "[", "\\", "]", "^", "_",
       "grave", "a", "b", "c", "d", "e", "f", "g", "h", "i", "j", "k", "l", "m", "n", "o",
       "p", "q", "r", "s", "t", "u", "v", "w", "x", "y", "z", "{", "|", "}", "~" >>
AsciiBase == 32
ord(c) == AsciiBase - 1 + (CHOOSE i \in DOMAIN Ascii : Ascii[i] = c)

PolyOffset == 63
ChunkBase == 32

\* the inner "while True" loop: reads 5-bit chunks from encoded[index] on.
\* result |= (b & 0x1f) << shift adds (b mod 32) * 2^shift, the bits being
\* fresh; weight is 2^shift.  Indexing past the end raises IndexError.
RECURSIVE read_varint(_, _, _, _)
read_varint(encoded, index, result, weight) ==
    IF index > Len(encoded) THEN Raise("IndexError")
    ELSE LET b == ord(encoded[index]) - PolyOffset
             r == result + (b % ChunkBase) * weight
         IN  IF b < ChunkBase
             THEN Return(<<r, index + 1>>)
             ELSE read_varint(encoded, index + 1, r, weight * ChunkBase)

\* zigzag with -(result >> 1) in place of ~(result >> 1) for an odd result
zigzag_negated(result) ==
    IF result % 2 = 1 THEN 0 - (result \div 2) ELSE result \div 2

\* ~(result >> 1) if (result & 1) else (result >> 1)
zigzag(result) ==
    IF result % 2 = 1 THEN 0 - (result \div 2) - 1 ELSE result \div 2

\* the outer loop, from index with the accumulators lat and lng; a decoded
\* point is [lng / 1e5, lat / 1e5], here <<lng, lat>> in E5 units
RECURSIVE decode_from(_, _, _, _, _)
decode_from(encoded, index, lat, lng, coords) ==
    IF index > Len(encoded) THEN Return(coords)
    ELSE
    LET r1 == read_varint(encoded, index, 0, 1)
        lat2 == lat + zigzag(r1.val[1])
        r2 == read_varint(encoded, r1.val[2], 0, 1)
        lng2 == lng + zigzag(r2.val[1])
    IN  IF ~r1.ok THEN r1
        ELSE IF ~r2.ok THEN r2
        ELSE decode_from(encoded, r2.val[2], lat2, lng2, Append(coords, <<lng2, lat2>>))

\* encoded is Some(string) or None (no overview polyline in the response)
polyline_decode(encoded) ==
    IF encoded = None \/ encoded = Some(<<>>) THEN Return(<<>>)
    ELSE decode_from(encoded[1], 1, 0, 0, <<>>)

(***************************************************************************)
(* FareCalculator: calculate_fare.  Kilometres, minutes and the fare are   *)
(* exact rationals with denominator Den.                                   *)
(***************************************************************************)
Den == 3000
BaseFare == 3
MetersPerKm == 1000
SecondsPerMin == 60

\* mutant of calculate_fare: the per-minute rate is applied as 1, not 0.5
calculate_fare_full_minute_rate(distance_m, duration_s) ==
    BaseFare * Den
    + (distance_m * Den) \div MetersPerKm
    + (duration_s * Den) \div SecondsPerMin

\* 3 + (distance_m / 1000.0) + ((duration_s / 60.0) * 0.5)
calculate_fare(distance_m, duration_s) ==
    BaseFare * Den
    + (distance_m * Den) \div MetersPerKm
    + ((duration_s * Den) \div SecondsPerMin) \div 2

(***************************************************************************)
(* The state.  pc is the position in the running call; env the credentials *)
(* read from the environment; input the arguments of the call; trip the    *)
(* locals of compute_trip; geo the locals of the running robust_geocode;   *)
(* calls the provider requests made so far, in order; outcome what the     *)
(* call returned or raised.                                                *)
(***************************************************************************)
VARIABLES pc, env, input, trip, geo, calls, outcome

vars == <<pc, env, input, trip, geo, calls, outcome>>

NoOutcome == [ok |-> FALSE, val |-> <<>>, exc |-> ""]
\* raise ValueError(msg) whose message carries detail
RaiseWith(e, detail) == [ok |-> FALSE, val |-> detail, exc |-> e]

GeocodeFailed == "No results found for address after multiple attempts"
RoutingFailed == "Routing failed"

(***************************************************************************)
(* Inputs and provider answers.                                            *)
(***************************************************************************)
AddrEmpty ==
    <<>>
AddrBlank ==
    <<" ", " ", " ">>
AddrLiteral ==
    <<"3", ".", "1", "3", "9", ",", " ", "1", "0", "1", ".", "6", "8", "6", "9">>
AddrLiteralNear ==
    <<"3", ".", "1", "3", "9", "1", ",", " ", "1", "0", "1", ".", "6", "8", "6", "9">>
AddrLiteralApart ==
    <<"3", ".", "1", "3", "9", "2", ",", " ", "1", "0", "1", ".", "6", "8", "6", "9">>
AddrLiteralFiveDecimals ==
    <<"3", ".", "1", "3", "9", "0", "0", ",", " ",
      "1", "0", "1", ".", "6", "8", "6", "9", "0">>
AddrLiteralOutOfRange ==
    <<"2", "0", "0", ",", " ", "3", "0", "0">>
AddrLiteralPostal ==
    <<"1", "2", "3", "4", "5", ",", " ", "1", "2", "3", "4", "5">>
AddrCity ==
    <<"K", "L">>
AddrStreet ==
    <<"J", "l", "n", " ", "T", "m", "n", " ", "B", "u", "n", "g", "a", ",", " ",
      "K", "a", "j", "a", "n", "g", ",", " ", "S", "e", "l", "a", "n", "g", "o", "r">>

\* the raw addresses given to compute_trip
TripAddresses ==
    {AddrLiteral, AddrLiteralNear, AddrLiteralApart, AddrLiteralFiveDecimals,
     AddrLiteralOutOfRange, AddrLiteralPostal, AddrCity, AddrStreet}

Modes == {Car, <<"F", "o", "o", "t">>, Cycle}

\* what a geocoding provider answers: a failure (HTTP error, no features,
\* malformed payload) or the <<lon, lat>> of its best candidate
GeoCoords == {<<10168690, 313900>>, <<10171230, 315000>>}
GeocodeAnswers == {None} \cup {Some(c) : c \in GeoCoords}

MaxHalfKm == 1
MaxHalfMin == 1
RouteDistances == {k * (MetersPerKm \div 2) : k \in 0..MaxHalfKm}
RouteDurations == {k * (SecondsPerMin \div 2) : k \in 0..MaxHalfMin}
RouteGeometries == {<<>>, <<<<10168690, 313900>>, <<10171230, 315000>>>>}

\* overview_polyline.points of a Google answer: absent, two whole points,
\* a string cut after a latitude
GooglePolylines ==
    {None, Some(<<"?", "?", "A", "@">>), Some(<<"?", "?", "A">>)}

RouteFailures == {"http_error", "no_routes", "no_legs"}

GoogleAnswers ==
    [status : RouteFailures, distance : {0}, duration : {0},
     duration_in_traffic : {None}, points : {None}]
    \cup
    [status : {"ok"}, distance : RouteDistances, duration : RouteDurations,
     duration_in_traffic : {None} \cup {Some(d) : d \in RouteDurations},
     points : GooglePolylines]

OpenRouteAnswers ==
    [status : RouteFailures \ {"no_legs"}, distance : {0}, duration : {0},
     geometry : {<<>>}]
    \cup
    [status : {"ok"}, distance : RouteDistances, duration : RouteDurations,
     geometry : RouteGeometries]

(***************************************************************************)
(* RoutingResolver backends, as functions of the provider's answer.        *)
(***************************************************************************)
route_summary_google(api_key, mode, answer) ==
    LET gmode == google_mode(mode)
        \* (leg0.get("duration_in_traffic") if gmode == "driving" else None)
        \*     or leg0.get("duration")
        dur_s == IF gmode = "driving" /\ answer.duration_in_traffic # None
                 THEN answer.duration_in_traffic[1]
                 ELSE answer.duration
        decoded == polyline_decode(answer.points)
    IN  IF ~api_key THEN Raise("RuntimeError")
        ELSE IF answer.status = "http_error" THEN Raise("HTTPError")
        ELSE IF answer.status # "ok" THEN Raise("ValueError")
        ELSE IF ~decoded.ok THEN decoded
        ELSE Return([provider |-> "google", profile |-> gmode,
                     distance_m |-> answer.distance, duration_s |-> dur_s,
                     geometry |-> decoded.val, steps |-> <<>>,
                     traffic |-> (gmode = "driving")])

\* the OpenRouteService backend
route_summary(mode, answer) ==
    IF answer.status = "http_error" THEN Raise("ApiError")
    ELSE IF answer.status # "ok" THEN Raise("KeyError")
    ELSE Return([provider |-> "ors", profile |-> ors_profile(mode),
                 distance_m |-> answer.distance, duration_s |-> answer.duration,
                 geometry |-> answer.geometry, steps |-> <<>>, traffic |-> FALSE])

route_summary_osrm(mode, answer) ==
    IF answer.status = "http_error" THEN Raise("HTTPError")
    ELSE IF answer.status # "ok" THEN Raise("ValueError")
    ELSE Return([provider |-> "osrm", profile |-> osrm_profile(mode),
                 distance_m |-> answer.distance, duration_s |-> answer.duration,
                 geometry |-> answer.geometry, steps |-> <<>>, traffic |-> FALSE])

same_point_threshold_m == 20

\* mutant of direct_summary: the measured distance is reported, not zero
direct_summary_measured(start, end, mode) ==
    [provider |-> "direct", profile |-> mode,
     distance_m |-> haversine_meters(start, end), duration_s |-> 0,
     geometry |-> <<start, end>>, steps |-> <<>>]

\* the summary of the same-point branch of compute_trip; it has no traffic key
direct_summary(start, end, mode) ==
    [provider |-> "direct", profile |-> mode, distance_m |-> 0, duration_s |-> 0,
     geometry |-> <<start, end>>, steps |-> <<>>]

\* the dict compute_trip returns; distance_km, duration_min and fare_rm in
\* units of 1/Den
trip_result(start, end, mode, summary) ==
    [distance_km |-> (summary.distance_m * Den) \div MetersPerKm,
     duration_min |-> (summary.duration_s * Den) \div SecondsPerMin,
     fare_rm |-> calculate_fare(summary.distance_m, summary.duration_s),
     start |-> start, end |-> end, mode |-> mode,
     provider |-> summary.provider, profile |-> summary.profile,
     geometry |-> summary.geometry, steps |-> summary.steps,
     traffic |-> IF "traffic" \in DOMAIN summary THEN summary.traffic ELSE FALSE]

(***************************************************************************)
(* robust_geocode, one action per step of its fallback chain.              *)
(***************************************************************************)
GeoIdle == [target |-> "", address |-> <<>>, text |-> <<>>, pass |-> 0]
\* a call of robust_geocode(address) whose result goes to target
EnterGeocode(target, address) ==
    [target |-> target, address |-> address, text |-> address, pass |-> 1]

\* one provider request: the text sent (geocoders), whether the backend
\* function returned, what it returned (geocoders: the coordinate), and the
\* robust_geocode call of the run that made it or was the last before it
Call(provider, text, ok, val) ==
    [provider |-> provider, text |-> text, ok |-> ok, val |-> val,
     target |-> geo.target]

\* robust_geocode returns coord: compute_trip goes on with the end address,
\* or with the same-point check; a direct call is over
GeocodeReturn(coord) ==
    /\ UNCHANGED <<env, input>>
    /\ CASE geo.target = "start" ->
              /\ trip' = [trip EXCEPT !.start = coord]
              /\ geo' = EnterGeocode("end", trip.end_address)
              /\ pc' = "geocode_parse"
              /\ outcome' = outcome
         [] geo.target = "end" ->
              /\ trip' = [trip EXCEPT !.end = coord]
              /\ pc' = "same_point"
              /\ UNCHANGED <<geo, outcome>>
         [] OTHER ->
              /\ outcome' = Return(coord)
              /\ pc' = "done"
              /\ UNCHANGED <<trip, geo>>

\* mutant of GeocodeRaise: the failure carries the text of the last attempt
GeocodeRaiseLastText ==
    /\ outcome' = RaiseWith(GeocodeFailed, geo.text)
    /\ pc' = "failed"
    /\ UNCHANGED <<env, input, trip, geo>>

\* the final raise of robust_geocode; compute_trip does not catch it
GeocodeRaise ==
    /\ outcome' = RaiseWith(GeocodeFailed, geo.address)
    /\ pc' = "failed"
    /\ UNCHANGED <<env, input, trip, geo>>

GeocodeParse ==
    /\ pc = "geocode_parse"
    /\ LET parsed == try_parse_coords(geo.address)
       IN  IF parsed # None
           THEN GeocodeReturn(parsed[1])
           ELSE /\ pc' = IF env.OPENROUTESERVICE_API_KEY
                         THEN "geocode_primary" ELSE "geocode_nominatim"
                /\ UNCHANGED <<env, input, trip, geo, outcome>>
    /\ UNCHANGED calls

\* mutant of GeocodePrimary: a failure of the primary provider is not caught
GeocodePrimaryUncaught ==
    /\ pc = "geocode_primary"
    /\ \E answer \in GeocodeAnswers :
          /\ calls' = Append(calls, Call("pelias", geo.text, answer # None, answer))
          /\ IF answer # None
             THEN GeocodeReturn(answer[1])
             ELSE GeocodeRaise

\* geocode_address through the ORS Pelias client, on the address or on its
\* simplified form
GeocodePrimary ==
    /\ pc = "geocode_primary"
    /\ \E answer \in GeocodeAnswers :
          /\ calls' = Append(calls, Call("pelias", geo.text, answer # None, answer))
          /\ IF answer # None
             THEN GeocodeReturn(answer[1])
             ELSE /\ pc' = "geocode_nominatim"
                  /\ UNCHANGED <<env, input, trip, geo, outcome>>

GeocodeNominatim ==
    /\ pc = "geocode_nominatim"
    /\ \E answer \in GeocodeAnswers :
          /\ calls' = Append(calls, Call("nominatim", geo.text, answer # None, answer))
          /\ IF answer # None
             THEN GeocodeReturn(answer[1])
             ELSE IF geo.pass = 1
             THEN /\ pc' = "geocode_simplify"
                  /\ UNCHANGED <<env, input, trip, geo, outcome>>
             ELSE GeocodeRaise

GeocodeSimplify ==
    /\ pc = "geocode_simplify"
    /\ LET simplified == simplify_address_for_retry(geo.address)
       IN  IF simplified # None
           THEN /\ geo' = [geo EXCEPT !.text = simplified[1], !.pass = 2]
                /\ pc' = IF env.OPENROUTESERVICE_API_KEY
                         THEN "geocode_primary" ELSE "geocode_nominatim"
                /\ UNCHANGED <<env, input, trip, outcome>>
           ELSE GeocodeRaise
    /\ UNCHANGED calls

(***************************************************************************)
(* compute_trip                                                            *)
(***************************************************************************)
NoTrip ==
    [start_address |-> <<>>, end_address |-> <<>>, mode |-> <<>>,
     start |-> None, end |-> None, summary |-> None]

\* lines 530-534: both addresses are normalized, then the start is geocoded
Normalize ==
    /\ pc = "compute_trip"
    /\ trip' = [trip EXCEPT !.start_address = normalize_address(input.start_address),
                            !.end_address = normalize_address(input.end_address),
                            !.mode = input.mode]
    /\ geo' = EnterGeocode("start", normalize_address(input.start_address))
    /\ pc' = "geocode_parse"
    /\ UNCHANGED <<env, input, calls, outcome>>

\* "if not summary": the backend tried when Google is absent or has failed
OpenBackend == IF env.OPENROUTESERVICE_API_KEY THEN "route_ors" ELSE "route_osrm"

\* lines 539-551
SamePoint ==
    /\ pc = "same_point"
    /\ IF haversine_meters(trip.start, trip.end) <= same_point_threshold_m
       THEN /\ trip' = [trip EXCEPT
                           !.summary = direct_summary(trip.start, trip.end, trip.mode)]
            /\ pc' = "assemble"
       ELSE /\ pc' = IF env.GOOGLE_MAPS_API_KEY THEN "route_google" ELSE OpenBackend
            /\ UNCHANGED trip
    /\ UNCHANGED <<env, input, geo, calls, outcome>>

\* the durations of leg0 in a Google answer: "duration" and the optional
\* "duration_in_traffic"
leg_durations(answer) ==
    [duration |-> answer.duration, duration_in_traffic |-> answer.duration_in_traffic]

\* lines 545-549: any exception of the Google backend leaves summary None
RouteGoogle ==
    /\ pc = "route_google"
    /\ \E answer \in GoogleAnswers :
          LET r == route_summary_google(env.GOOGLE_MAPS_API_KEY, trip.mode, answer)
          IN  /\ calls' = Append(calls, Call("google", <<>>, r.ok, leg_durations(answer)))
              /\ IF r.ok
                 THEN /\ trip' = [trip EXCEPT !.summary = r.val]
                      /\ pc' = "assemble"
                 ELSE /\ pc' = OpenBackend
                      /\ UNCHANGED trip
    /\ UNCHANGED <<env, input, geo, outcome>>

\* lines 555-560
RouteOrs ==
    /\ pc = "route_ors"
    /\ \E answer \in OpenRouteAnswers :
          LET r == route_summary(trip.mode, answer)
          IN  /\ calls' = Append(calls, Call("ors", <<>>, r.ok, None))
              /\ IF r.ok
                 THEN /\ trip' = [trip EXCEPT !.summary = r.val]
                      /\ pc' = "assemble"
                      /\ UNCHANGED outcome
                 ELSE /\ outcome' = RaiseWith(RoutingFailed, <<>>)
                      /\ pc' = "failed"
                      /\ UNCHANGED trip
    /\ UNCHANGED <<env, input, geo>>

\* lines 562-565
RouteOsrm ==
    /\ pc = "route_osrm"
    /\ \E answer \in OpenRouteAnswers :
          LET r == route_summary_osrm(trip.mode, answer)
          IN  /\ calls' = Append(calls, Call("osrm", <<>>, r.ok, None))
              /\ IF r.ok
                 THEN /\ trip' = [trip EXCEPT !.summary = r.val]
                      /\ pc' = "assemble"
                      /\ UNCHANGED outcome
                 ELSE /\ outcome' = RaiseWith(RoutingFailed, <<>>)
                      /\ pc' = "failed"
                      /\ UNCHANGED trip
    /\ UNCHANGED <<env, input, geo>>

\* lines 567-583
Assemble ==
    /\ pc = "assemble"
    /\ outcome' = Return(trip_result(trip.start, trip.end, trip.mode, trip.summary))
    /\ pc' = "done"
    /\ UNCHANGED <<env, input, trip, geo, calls>>

Environments == [GOOGLE_MAPS_API_KEY : BOOLEAN, OPENROUTESERVICE_API_KEY : BOOLEAN]

\* a call compute_trip(start_address, end_address, mode)
Init ==
    /\ pc = "compute_trip"
    /\ env \in Environments
    /\ input \in [start_address : TripAddresses, end_address : TripAddresses,
                  mode : Modes]
    /\ trip = NoTrip
    /\ geo = GeoIdle
    /\ calls = <<>>
    /\ outcome = NoOutcome

Next ==
    \/ Normalize
    \/ GeocodeParse
    \/ GeocodePrimary
    \/ GeocodeNominatim
    \/ GeocodeSimplify
    \/ SamePoint
    \/ RouteGoogle
    \/ RouteOrs
    \/ RouteOsrm
    \/ Assemble

Spec == Init /\ [][Next]_vars

(***************************************************************************)
(* Properties of compute_trip (specification Spec).                        *)
(***************************************************************************)
Routers == {"google", "ors", "osrm"}
Geocoders == {"pelias", "nominatim"}

Attempted(provider) == \E i \in DOMAIN calls : calls[i].provider = provider
Failed(provider) ==
    \E i \in DOMAIN calls : calls[i].provider = provider /\ ~calls[i].ok

\* the routing backends available under the credentials: OSRM needs none
AvailableRouters ==
    {"osrm"}
    \cup (IF env.GOOGLE_MAPS_API_KEY THEN {"google"} ELSE {})
    \cup (IF env.OPENROUTESERVICE_API_KEY THEN {"ors"} ELSE {})

RoutingFailure == pc = "failed" /\ outcome.exc = RoutingFailed

\* C1: compute_trip raises "Routing failed" only when every routing backend
\* available under the credentials (Google if keyed, ORS if keyed, OSRM always)
\* has been attempted and has failed; in particular a failed ORS call is
\* followed by an OSRM call.
C1_RoutingFailsOnlyWhenChainExhausted ==
    RoutingFailure =>
        \A b \in AvailableRouters : Attempted(b) /\ Failed(b)

InRange(c) ==
    /\ 0 - MaxLon * E5 <= c[1] /\ c[1] <= MaxLon * E5
    /\ 0 - MaxLat * E5 <= c[2] /\ c[2] <= MaxLat * E5

\* both endpoints are resolved
Resolved == pc \in {"same_point", "route_google", "route_ors", "route_osrm",
                    "assemble", "done"} \/ RoutingFailure

\* C4: when the two resolved coordinates are at most 20 m apart no routing
\* backend is called, whatever the credentials, and the result has distance 0,
\* duration 0, fare 3, provider "direct" and geometry [start, end]; when they
\* are more than 20 m apart the provider is never "direct".
C4_SamePointShortCircuit ==
    /\ Resolved /\ haversine_meters(trip.start, trip.end) <= 20 =>
          /\ \A b \in Routers : ~Attempted(b)
          /\ pc # "failed"
          /\ pc = "done" =>
                /\ outcome.val.distance_km = 0
                /\ outcome.val.duration_min = 0
                /\ outcome.val.fare_rm = 3 * Den
                /\ outcome.val.provider = "direct"
                /\ outcome.val.geometry = <<trip.start, trip.end>>
                /\ outcome.val.start = trip.start
                /\ outcome.val.end = trip.end
    /\ pc = "done" /\ haversine_meters(trip.start, trip.end) > 20 =>
          outcome.val.provider \in Routers

\* C4 witness: two distinct points within 20 m of each other, both routing
\* credentials configured, and the trip came back as the direct one
C4_Witness ==
    /\ pc = "done"
    /\ env.GOOGLE_MAPS_API_KEY /\ env.OPENROUTESERVICE_API_KEY
    /\ trip.start # trip.end
    /\ outcome.val.provider = "direct"

\* the start has been resolved / the end has been resolved
StartResolved == Resolved \/ (pc # "compute_trip" /\ geo.target = "end")
EndResolved == Resolved

\* C5: an endpoint given to compute_trip as a raw coordinate literal is
\* resolved to tryParse(raw), with normalization bypassed and no geocoding
\* provider called for it.
C5_LiteralBypassesNormalization ==
    /\ StartResolved /\ try_parse_coords(input.start_address) # None =>
          trip.start = try_parse_coords(input.start_address)[1]
    /\ EndResolved /\ try_parse_coords(input.end_address) # None =>
          trip.end = try_parse_coords(input.end_address)[1]
    /\ (/\ try_parse_coords(input.start_address) # None
        /\ try_parse_coords(input.end_address) # None) =>
          \A g \in Geocoders : ~Attempted(g)

\* C6: every coordinate of a TripResult has its longitude in [-180, 180] and
\* its latitude in [-90, 90].
C6_CoordinatesInRange ==
    pc = "done" => InRange(outcome.val.start) /\ InRange(outcome.val.end)

\* the durations of the Google answer behind a finished trip
GoogleLeg == calls[CHOOSE i \in DOMAIN calls : calls[i].provider = "google"].val

\* the duration of a finished trip is the live-traffic duration of the answer
LiveTrafficUsed ==
    /\ outcome.val.provider = "google"
    /\ google_mode(input.mode) = "driving"
    /\ GoogleLeg.duration_in_traffic # None

\* C12: the traffic flag of a trip is true exactly when its duration is the
\* live-traffic duration of the traffic-aware provider (Google backend,
\* driving mode, live-traffic duration present in the response), and false
\* otherwise; in driving mode the live-traffic duration is used whenever
\* present, in the other modes the schedule-based duration always is.
C12_TrafficFlagMeansTrafficUsed ==
    pc = "done" =>
        /\ outcome.val.traffic <=> LiveTrafficUsed
        /\ outcome.val.provider = "google" =>
              outcome.val.duration_min =
                 (Den \div SecondsPerMin) *
                    (IF LiveTrafficUsed THEN GoogleLeg.duration_in_traffic[1]
                                        ELSE GoogleLeg.duration)

MaxFareDelta == 3

\* C9: the fare of every TripResult is 3 + distance_m/1000 * 1 +
\* duration_s/60 * 0.5 of its summary, exactly (a metre costs 1/1000 and a
\* second 1/120); fare(0, 0) = 3; and the fare does not decrease when the
\* distance or the duration grows.
C9_FareFormula ==
    /\ Den % MetersPerKm = 0 /\ Den % (2 * SecondsPerMin) = 0
    /\ calculate_fare(0, 0) = 3 * Den
    /\ pc = "done" =>
          /\ outcome.val.fare_rm =
                3 * Den + trip.summary.distance_m * (Den \div 1000)
                        + trip.summary.duration_s * (Den \div 120)
          /\ \A dd, dt \in 0..MaxFareDelta :
                calculate_fare(trip.summary.distance_m + dd,
                               trip.summary.duration_s + dt) >= outcome.val.fare_rm

\* C9 witness: a routed trip with a positive distance and duration
C9_Witness ==
    /\ pc = "done"
    /\ outcome.val.provider = "osrm"
    /\ trip.summary.distance_m > 0 /\ trip.summary.duration_s > 0

(***************************************************************************)
(* robust_geocode called on its own (specification SpecGeocode).           *)
(***************************************************************************)
AddrNormalizedStreet ==
    <<"J", "a", "l", "a", "n", " ", "B", "u", "n", "g", "a", ",", " ",
      "K", "a", "j", "a", "n", "g", ",", " ", "S", "e", "l", "a", "n", "g", "o", "r",
      ",", " ", "M", "a", "l", "a", "y", "s", "i", "a">>
AddrNormalizedCity ==
    <<"K", "L", ",", " ", "M", "a", "l", "a", "y", "s", "i", "a">>
AddrTwoSegments ==
    <<"K", "L", ",", "M", "Y">>
AddrThreeSegments ==
    <<"A", ",", " ", "B", ",", " ", "C">>
AddrUntidy ==
    <<" ", "A", " ", ",", "B", ",", ",", " ", "C", ",", "D", " ">>
AddrOneNumber ==
    <<"N", "o", " ", "7">>

\* the addresses given to robust_geocode
GeocodeAddresses ==
    {AddrEmpty, AddrBlank, AddrLiteral, AddrLiteralOutOfRange, AddrCity,
     AddrNormalizedCity, AddrNormalizedStreet, AddrTwoSegments, AddrThreeSegments,
     AddrUntidy, AddrOneNumber}

\* a call robust_geocode(address)
InitGeocode ==
    /\ pc = "geocode_parse"
    /\ env \in Environments
    /\ input \in [address : GeocodeAddresses]
    /\ trip = NoTrip
    /\ geo = EnterGeocode("caller", input.address)
    /\ calls = <<>>
    /\ outcome = NoOutcome

NextGeocode ==
    \/ GeocodeParse
    \/ GeocodePrimary
    \/ GeocodeNominatim
    \/ GeocodeSimplify

SpecGeocode == InitGeocode /\ [][NextGeocode]_vars

\* the provider requests of one pass on text, in order
PassOn(text) ==
    (IF env.OPENROUTESERVICE_API_KEY THEN <<<<"pelias", text>>>> ELSE <<>>)
    \o <<<<"nominatim", text>>>>

\* the requests robust_geocode(address) makes when every one of them fails
FullChain(address) ==
    PassOn(address)
    \o (IF simplify_address_for_retry(address) = None THEN <<>>
        ELSE PassOn(simplify_address_for_retry(address)[1]))

Request(i) == <<calls[i].provider, calls[i].text>>

IsLiteral(address) == try_parse_coords(address) # None

\* C2: for an address that is no coordinate literal the provider requests
\* are, in order, a prefix of: primary on the address (if keyed), Nominatim
\* on the address, primary on the simplified address (if keyed), Nominatim on
\* the simplified address; a failed request is swallowed and followed by the
\* next one, the first success ends the chain and its coordinate is returned.
C2_GeocodeOrderAndFirstSuccess ==
    /\ IsLiteral(input.address) => calls = <<>>
    /\ Len(calls) <= Len(FullChain(input.address))
    /\ \A i \in DOMAIN calls : Request(i) = FullChain(input.address)[i]
    /\ \A i \in DOMAIN calls : i < Len(calls) => ~calls[i].ok
    /\ \A i \in DOMAIN calls :
          calls[i].ok => pc = "done" /\ outcome.ok /\ outcome.val = calls[i].val[1]
    /\ pc = "failed" => Len(calls) = Len(FullChain(input.address))

\* C2 witness: the primary provider is configured and failed, Nominatim
\* succeeded for the same text, and its coordinate came back
C2_Witness ==
    /\ pc = "done"
    /\ Len(calls) = 2
    /\ calls[1].provider = "pelias" /\ ~calls[1].ok
    /\ calls[2].provider = "nominatim" /\ calls[2].ok
    /\ calls[2].text = calls[1].text
    /\ outcome.ok /\ outcome.val = calls[2].val[1]

\* C3: robust_geocode fails with GeocodeFailed exactly when the address is no
\* coordinate literal and every provider request of the chain (on the address
\* and, when a simplification exists, on the simplified address) has failed;
\* the failure carries the address given to robust_geocode, not the
\* simplified one.
C3_GeocodeFailedIffAllFailed ==
    /\ pc \in {"done", "failed"} =>
          (pc = "failed" <=>
              ~IsLiteral(input.address) /\ \A i \in DOMAIN calls : ~calls[i].ok)
    /\ pc = "failed" =>
          /\ outcome.exc = GeocodeFailed
          /\ outcome.val = input.address
          /\ [i \in DOMAIN calls |-> Request(i)] = FullChain(input.address)

\* C3 witness: all four requests failed and the simplified text differs from
\* the address carried by the failure
C3_Witness ==
    /\ pc = "failed"
    /\ Len(calls) = 4
    /\ calls[4].text # input.address
    /\ outcome.val = input.address

(***************************************************************************)
(* A call of either entry point, compute_trip or robust_geocode            *)
(* (specification SpecEntry).                                              *)
(***************************************************************************)
InitEntry == Init \/ InitGeocode

SpecEntry == InitEntry /\ [][Next]_vars

\* the address of the first robust_geocode call of the run
FirstAddress == IF geo.target = "end" THEN trip.start_address ELSE geo.address

\* the requests of the first robust_geocode call and of the second one
\* (compute_trip: the start address, then the end address), in order
FirstCall ==
    SelectSeq(calls, LAMBDA c : c.provider \in Geocoders /\ c.target # "end")
SecondCall ==
    SelectSeq(calls, LAMBDA c : c.provider \in Geocoders /\ c.target = "end")

\* the comma-separated segments of an address, trimmed, empty ones left out
Segments(address) ==
    LET pieces == split(address, ",")
    IN  drop_empty([i \in DOMAIN pieces |-> strip(pieces[i])])

\* the last 3 segments, or the last 2 of fewer than 3, joined by ", "
LastSegments(address) ==
    LET n == IF Len(Segments(address)) < 3 THEN 2 ELSE 3
    IN  join(last_n(Segments(address), n), <<",", " ">>)

FirstPassProviders ==
    IF env.OPENROUTESERVICE_API_KEY THEN Geocoders ELSE {"nominatim"}

\* reqs are the requests of one robust_geocode(address)
BoundedRetries(reqs, address) ==
    /\ Len(reqs) <= 4
    /\ \A i \in DOMAIN reqs :
          reqs[i].text = address \/ reqs[i].text = LastSegments(address)
    /\ \A i, j \in DOMAIN reqs :
          i # j => <<reqs[i].provider, reqs[i].text>> # <<reqs[j].provider, reqs[j].text>>
    /\ \A i \in DOMAIN reqs :
          reqs[i].text # address =>
             \A p \in FirstPassProviders :
                \E j \in 1..(i - 1) :
                   reqs[j].provider = p /\ reqs[j].text = address /\ ~reqs[j].ok

\* C13: one robust_geocode call sends at most two strings to the providers,
\* the address and its simplified form (its last 3 segments, or last 2 of
\* fewer than 3), each provider at most once per string and so at most 4
\* requests; the simplified string is sent only after every first-pass
\* request failed and only if it differs from the address, and it is not
\* simplified again; one compute_trip calls each routing backend at most
\* once.
C13_RetriesBounded ==
    /\ BoundedRetries(FirstCall, FirstAddress)
    /\ BoundedRetries(SecondCall, trip.end_address)
    /\ \A r \in Routers :
          Cardinality({i \in DOMAIN calls : calls[i].provider = r}) <= 1

\* C13 witness: a finished trip whose start address took all four requests,
\* the last two on the simplified string, and whose route came from the
\* second backend after the first one failed
C13_Witness ==
    /\ pc = "done"
    /\ Len(FirstCall) = 4
    /\ FirstCall[3].text = LastSegments(trip.start_address)
    /\ FirstCall[3].text # trip.start_address
    /\ Failed("google")
    /\ Attempted("ors")

(***************************************************************************)
(* _try_parse_coords called on its own (specification SpecParse).  The     *)
(* text is written from up to MaxTokens numbers of known value.            *)
(***************************************************************************)
\* <<the number as written, its value in E5 units>>
NumberTokens ==
    { <<<<"4", "5">>, 4500000>>,
      <<<<"-", "9", "0">>, -9000000>>,
      <<<<"9", "0", ".", "0", "0", "0", "0", "1">>, 9000001>>,
      <<<<"1", "8", "0">>, 18000000>>,
      <<<<"-", "1", "8", "0", ".", "5">>, -18050000>>,
      <<<<"+", "3", ".", "1", "3", "9">>, 313900>>,
      <<<<"0">>, 0>>,
      <<<<"2", "0", "0">>, 20000000>> }
TokenPrefixes == {<<>>, <<"a", "t", " ">>}
TokenSeparators == {<<",", " ">>, <<" ">>, <<" ", "E", ";">>}
MaxTokens == 3

\* a call _try_parse_coords(text)
InitParse ==
    /\ pc = "try_parse_coords"
    /\ env = [GOOGLE_MAPS_API_KEY |-> FALSE, OPENROUTESERVICE_API_KEY |-> FALSE]
    /\ \E k \in 0..MaxTokens : \E toks \in [1..k -> NumberTokens] :
          \E prefix \in TokenPrefixes : \E sep \in TokenSeparators :
             input = [text |-> prefix \o join([i \in 1..k |-> toks[i][1]], sep),
                      values |-> [i \in 1..k |-> toks[i][2]]]
    /\ trip = NoTrip
    /\ geo = GeoIdle
    /\ calls = <<>>
    /\ outcome = NoOutcome

ParseCall ==
    /\ pc = "try_parse_coords"
    /\ outcome' = Return(try_parse_coords(input.text))
    /\ pc' = "done"
    /\ UNCHANGED <<env, input, trip, geo, calls>>

NextParse == ParseCall

SpecParse == InitParse /\ [][NextParse]_vars

\* C7: with fewer than two numeric tokens the parser returns none; otherwise,
\* a and b being the first two, it returns (lon=b, lat=a) if a is in [-90, 90]
\* and b in [-180, 180], and (lon=a, lat=b) in every other case; later tokens
\* do not matter.
C7_ParserHeuristic ==
    pc = "done" =>
        outcome.val =
            IF Len(input.values) < 2 THEN None
            ELSE IF /\ -90 * E5 <= input.values[1] /\ input.values[1] <= 90 * E5
                    /\ -180 * E5 <= input.values[2] /\ input.values[2] <= 180 * E5
            THEN Some(<<input.values[2], input.values[1]>>)
            ELSE Some(<<input.values[1], input.values[2]>>)

\* C7 witness: three tokens, the first two both within [-90, 90] and
\* different, read latitude first
C7_Witness ==
    /\ pc = "done"
    /\ Len(input.values) = 3
    /\ input.values[1] = 4500000 /\ input.values[2] = -9000000
    /\ outcome.val = Some(<<-9000000, 4500000>>)

(***************************************************************************)
(* normalize_address called on its own (specification SpecNormalize).      *)
(***************************************************************************)
NormAlphabet == {" ", ",", "\n", "K", "7"}
MaxNormLen == 3
AddrChat ==
    <<"[", "1", "4", ":", "0", "4", ",", " ", "2", "6", "/", "0", "9", "]", " ",
      "+", "6", "0", "1", "6", ":", " ", "F", "r", "o", "m", " ",
      "J", "l", "n", " ", "T", "m", "n", " ", "B", "u", "n", "g", "a", ",", " ",
      "4", "3", "0", "0", "0">>

\* the strings given to normalize_address
NormalizeAddresses ==
    UNION {[1..n -> NormAlphabet] : n \in 0..MaxNormLen}
    \cup TripAddresses \cup GeocodeAddresses \cup {AddrChat}

InitNormalize ==
    /\ pc = "normalize_address"
    /\ env = [GOOGLE_MAPS_API_KEY |-> FALSE, OPENROUTESERVICE_API_KEY |-> FALSE]
    /\ input \in [address : NormalizeAddresses]
    /\ trip = NoTrip
    /\ geo = GeoIdle
    /\ calls = <<>>
    /\ outcome = NoOutcome

NormalizeCall ==
    /\ pc = "normalize_address"
    /\ outcome' = Return(normalize_address(input.address))
    /\ pc' = "done"
    /\ UNCHANGED <<env, input, trip, geo, calls>>

NextNormalize == NormalizeCall

SpecNormalize == InitNormalize /\ [][NextNormalize]_vars

\* C8: normalize_address returns the empty string for every empty or
\* whitespace-only input, and never returns the bare appended country
\* ", Malaysia" of a result without address segments.
C8_BlankInputGivesEmpty ==
    pc = "done" =>
        /\ strip(input.address) = <<>> => outcome.val = <<>>
        /\ outcome.val # <<",", " ">> \o CountryName

(***************************************************************************)
(* _polyline_decode called on its own (specification SpecDecode).          *)
(***************************************************************************)
PolyAlphabet == {"?", "@", "A", "_", "~", " "}
MaxPolyLen == 3
PolylineStrings == UNION {[1..n -> PolyAlphabet] : n \in 0..MaxPolyLen}

InitDecode ==
    /\ pc = "polyline_decode"
    /\ env = [GOOGLE_MAPS_API_KEY |-> FALSE, OPENROUTESERVICE_API_KEY |-> FALSE]
    /\ input \in [encoded : PolylineStrings]
    /\ trip = NoTrip
    /\ geo = GeoIdle
    /\ calls = <<>>
    /\ outcome = NoOutcome

DecodeCall ==
    /\ pc = "polyline_decode"
    /\ outcome' = polyline_decode(Some(input.encoded))
    /\ pc' = IF polyline_decode(Some(input.encoded)).ok THEN "done" ELSE "failed"
    /\ UNCHANGED <<env, input, trip, geo, calls>>

NextDecode == DecodeCall

SpecDecode == InitDecode /\ [][NextDecode]_vars

\* C10: _polyline_decode returns a sequence of coordinates without raising
\* for every input string, and the empty sequence for the empty string.
C10_DecodeTotal ==
    /\ pc # "failed"
    /\ pc = "done" /\ input.encoded = <<>> => outcome.val = <<>>

(***************************************************************************)
(* _polyline_decode applied to the overview polyline the traffic-aware     *)
(* provider builds from a sequence of points (specification                *)
(* SpecRoundTrip).  The provider's encoder is not in the repository: it is *)
(* the reference polyline encoding, written out here from its description. *)
(***************************************************************************)
chr(n) == Ascii[n - AsciiBase + 1]

\* a signed value to an unsigned one: v << 1, complemented when v < 0
zigzag_encode(v) == IF v < 0 THEN 0 - 2 * v - 1 ELSE 2 * v

\* the 5-bit chunks of u, lowest first, every chunk but the last with the
\* continuation flag (bit 5) set, each as the character chr(chunk + 63)
RECURSIVE encode_unsigned(_)
encode_unsigned(u) ==
    IF u >= ChunkBase
    THEN <<chr(ChunkBase + (u % ChunkBase) + PolyOffset)>> \o encode_unsigned(u \div ChunkBase)
    ELSE <<chr(u + PolyOffset)>>

\* points are <<lon, lat>> in E5 units; each point gives its latitude delta
\* and then its longitude delta from the previous point (from 0, 0 at first)
RECURSIVE encode_from(_, _, _, _)
encode_from(points, i, lat, lng) ==
    IF i > Len(points) THEN <<>>
    ELSE encode_unsigned(zigzag_encode(points[i][2] - lat))
            \o encode_unsigned(zigzag_encode(points[i][1] - lng))
            \o encode_from(points, i + 1, points[i][2], points[i][1])

polyline_encode(points) == encode_from(points, 1, 0, 0)

RouteLats == {-9000000, -1, 0, 16, 313900}
RouteLons == {-18000000, -17, 0, 1, 10168690}
RoutePoints == {<<lon, lat>> : lon \in RouteLons, lat \in RouteLats}
MaxPoints == 2
RoutePointSequences == UNION {[1..n -> RoutePoints] : n \in 0..MaxPoints}

InitRoundTrip ==
    /\ pc = "overview_polyline"
    /\ env = [GOOGLE_MAPS_API_KEY |-> TRUE, OPENROUTESERVICE_API_KEY |-> FALSE]
    /\ input \in [points : RoutePointSequences]
    /\ trip = NoTrip
    /\ geo = GeoIdle
    /\ calls = <<>>
    /\ outcome = NoOutcome

\* geometry = _polyline_decode(encoded), encoded being the provider's
\* encoding of the route's points
DecodeOverview ==
    /\ pc = "overview_polyline"
    /\ LET geometry == polyline_decode(Some(polyline_encode(input.points)))
       IN  /\ outcome' = geometry
           /\ pc' = IF geometry.ok THEN "done" ELSE "failed"
    /\ UNCHANGED <<env, input, trip, geo, calls>>

NextRoundTrip == DecodeOverview

SpecRoundTrip == InitRoundTrip /\ [][NextRoundTrip]_vars

\* C11: for every sequence of points on the 1e-5 degree grid, decoding the
\* standard polyline encoding of the sequence (latitude delta then longitude
\* delta per point, zig-zag signs, 5-bit chunks with the continuation flag
\* in bit 5, offset 63) returns the same points in the same order as
\* [longitude, latitude] pairs, whatever the signs of the deltas.
C11_DecodeInvertsEncode ==
    pc # "overview_polyline" => outcome = Return(input.points)

\* a decoded route with a zero and a positive latitude delta and a negative
\* and a positive longitude delta, one of them more than one chunk long
C11_Witness ==
    /\ pc = "done"
    /\ input.points = <<<<-17, 0>>, <<10168690, 16>>>>
    /\ outcome.val = <<<<-17, 0>>, <<10168690, 16>>>>

====
